---------------------------- MODULE Spec2Model ----------------------------
(***************************************************************************)
(* Model of the Zotero library comparison tool:                            *)
(*   src/parse_website_hierarchy.py            (the collection-tree script) *)
(*   src/zotero_analyzer_website_hierarchy.py  (ZoteroLibraryAnalyzer)      *)
(*                                                                         *)
(* Strings are sequences of characters; a character is a one-element       *)
(* TLA+ string, except the two tokens "Idot" (U+0130, capital I with dot   *)
(* above) and "dot" (U+0307, combining dot above), which stand for one      *)
(* character each.  A pandas DataFrame is the sequence of its rows; the    *)
(* DataFrame built from an empty list has no columns and is <<>>.          *)
(***************************************************************************)
EXTENDS Integers, Sequences, FiniteSets, TLC

VARIABLES
    html_file,                \* website_hierarchy.html: its li.collection elements
    collection_tree,          \* parse_website_hierarchy: id -> node, as an ordered dict
    paths,                    \* parse_website_hierarchy: id -> full path, as an ordered dict
    mapping_raised,           \* the exception that ended create_collection_mapping, or ""
    website_hierarchy,        \* self.website_hierarchy
    portal_items,             \* self.portal_items
    portal_collections,       \* self.portal_collections
    portal_collection_items,  \* self.portal_collection_items
    portal_records,           \* self.portal_records
    search_items,             \* self.search_items
    search_collections,       \* self.search_collections
    search_collection_items,  \* self.search_collection_items
    search_records,           \* self.search_records
    portal_hierarchy,         \* self.portal_hierarchy
    search_hierarchy,         \* self.search_hierarchy
    analysis_results,         \* self.analysis_results: <<>> is None, <<r>> the stored dict
    call,                     \* the operation called last, its arguments, and
                              \* whether it is still to run ("called") or has returned
    ret                       \* what the last returned call returned or raised

vars == <<html_file, collection_tree, paths, mapping_raised, website_hierarchy,
          portal_items, portal_collections, portal_collection_items, portal_records,
          search_items, search_collections, search_collection_items, search_records,
          portal_hierarchy, search_hierarchy, analysis_results, call, ret>>

tables == <<portal_items, portal_collections, portal_collection_items, portal_records,
            search_items, search_collections, search_collection_items, search_records>>

----------------------------------------------------------------------------
(* Generic helpers on sequences and sets.                                  *)

Range(s) == {s[i] : i \in 1..Len(s)}

RECURSIVE Flatten(_)
Flatten(ss) == IF ss = <<>> THEN <<>> ELSE Head(ss) \o Flatten(Tail(ss))

SeqsUpTo(S, n) == UNION {[1..k -> S] : k \in 0..n}

Abs(x) == IF x < 0 THEN -x ELSE x

----------------------------------------------------------------------------
(* Characters.  str.lower() maps one character to a string: U+0130 lowers  *)
(* to "i" followed by U+0307.  \w is alphanumeric or underscore, \s and    *)
(* str.split() use the same whitespace class.                              *)

UpperChars == {"A", "B"}
LowerChars == {"a", "b", "i"}
DigitChars == {"1"}
SpaceChars == {" ", "\t"}
PunctChars == {"!", "/", "dot"}
Chars == UpperChars \cup LowerChars \cup DigitChars \cup SpaceChars
            \cup PunctChars \cup {"_", "Idot"}

\* Code-point order of the characters (Python compares strings by code point).
Ord(c) ==
    CASE c = "\t"   -> 9
      [] c = " "    -> 32
      [] c = "!"    -> 33
      [] c = "/"    -> 47
      [] c = "1"    -> 49
      [] c = "A"    -> 65
      [] c = "B"    -> 66
      [] c = "_"    -> 95
      [] c = "a"    -> 97
      [] c = "b"    -> 98
      [] c = "i"    -> 105
      [] c = "Idot" -> 304
      [] c = "dot"  -> 775

lower_char(c) ==
    CASE c = "A"    -> <<"a">>
      [] c = "B"    -> <<"b">>
      [] c = "Idot" -> <<"i", "dot">>
      [] OTHER      -> <<c>>

isspace(c) == c \in SpaceChars

isword(c) == c \in UpperChars \cup LowerChars \cup DigitChars \cup {"_", "Idot"}

\* str.lower()
lower(s) == Flatten([i \in 1..Len(s) |-> lower_char(s[i])])

\* re.sub(r'[^\w\s]', '', s)
sub_non_word(s) == SelectSeq(s, LAMBDA c : isword(c) \/ isspace(c))

\* str.split(): the maximal runs of non-whitespace characters
RECURSIVE split_ws(_, _, _)
split_ws(s, cur, acc) ==
    IF s = <<>> THEN (IF cur = <<>> THEN acc ELSE Append(acc, cur))
    ELSE IF isspace(Head(s))
         THEN split_ws(Tail(s), <<>>, IF cur = <<>> THEN acc ELSE Append(acc, cur))
         ELSE split_ws(Tail(s), Append(cur, Head(s)), acc)

split(s) == split_ws(s, <<>>, <<>>)

\* sep.join(words)
RECURSIVE join(_, _)
join(sep, words) ==
    IF words = <<>> THEN <<>>
    ELSE IF Len(words) = 1 THEN Head(words)
    ELSE Head(words) \o sep \o join(sep, Tail(words))

\* str.strip()
RECURSIVE lstrip(_)
lstrip(s) == IF s # <<>> /\ isspace(Head(s)) THEN lstrip(Tail(s)) ELSE s

RECURSIVE rstrip(_)
rstrip(s) ==
    IF s # <<>> /\ isspace(s[Len(s)]) THEN rstrip(SubSeq(s, 1, Len(s) - 1)) ELSE s

strip(s) == lstrip(rstrip(s))

\* str.split('/'): the segments between separators, empty ones included
RECURSIVE split_sep(_, _, _)
split_sep(s, cur, acc) ==
    IF s = <<>> THEN Append(acc, cur)
    ELSE IF Head(s) = "/"
         THEN split_sep(Tail(s), <<>>, Append(acc, cur))
         ELSE split_sep(Tail(s), Append(cur, Head(s)), acc)

split_slash(s) == split_sep(s, <<>>, <<>>)

\* Python's < on strings
RECURSIVE str_less(_, _)
str_less(s, t) ==
    IF t = <<>> THEN FALSE
    ELSE IF s = <<>> THEN TRUE
    ELSE IF Ord(Head(s)) # Ord(Head(t)) THEN Ord(Head(s)) < Ord(Head(t))
    ELSE str_less(Tail(s), Tail(t))

----------------------------------------------------------------------------
(* ZoteroLibraryAnalyzer.normalize_title                                   *)

\* Not the program: lines 86-89 altered, whitespace is standardised before the
\* punctuation is removed.
normalize_title_punct_last(title) ==
    IF title = <<>> THEN <<>>
    ELSE sub_non_word(join(<<" ">>, split(lower(title))))

normalize_title(title) ==
    IF title = <<>> THEN <<>>
    ELSE join(<<" ">>, split(sub_non_word(lower(title))))

\* The argument None, told apart from every string.
NoneTitle == <<"None">>

\* Not the program: line 82 altered, only the empty string is caught.
falsy_empty_only(title) == title = <<>>

\* Line 82: `not title` holds of None and of the empty string.
falsy(title) == title = NoneTitle \/ title = <<>>

\* A call of normalize_title: the exception that leaves it ("" when none) and
\* the value it returns.  None has no lower(): line 86 raises AttributeError
\* on a None that line 82 let through.
normalize_title_call(title) ==
    IF falsy(title) THEN [raised |-> "", value |-> <<>>]
    ELSE IF title = NoneTitle THEN [raised |-> "AttributeError", value |-> <<>>]
    ELSE [raised |-> "", value |-> normalize_title(title)]

----------------------------------------------------------------------------
(* Python dicts keep insertion order: a dict is the sequence of its        *)
(* [k |-> key, v |-> value] entries, keys unique.                          *)

dict_keys(d) == [i \in 1..Len(d) |-> d[i].k]

dict_keys_set(d) == {d[i].k : i \in 1..Len(d)}

dict_has(d, key) == \E i \in 1..Len(d) : d[i].k = key

\* d[key], for a key of d
dict_at(d, key) == d[CHOOSE i \in 1..Len(d) : d[i].k = key].v

\* d.get(key, default)
dict_get(d, key, default) == IF dict_has(d, key) THEN dict_at(d, key) ELSE default

\* d[key] = value: an existing key keeps its place
dict_set(d, key, value) ==
    IF dict_has(d, key)
    THEN [i \in 1..Len(d) |-> IF d[i].k = key THEN [k |-> key, v |-> value] ELSE d[i]]
    ELSE Append(d, [k |-> key, v |-> value])

----------------------------------------------------------------------------
(* parse_website_hierarchy.py.  The HTML document is the sequence of its   *)
(* li.collection elements in document order (what find_all returns), each  *)
(* [key, title, level, parent]: the data-collection-key, the title         *)
(* attribute, the aria-level (RootLevel when the attribute is absent) and  *)
(* the index of the nearest enclosing li.collection (0 when there is none).*)

\* The aria-level of a root collection: the default of line 48, tested at line 110.
RootLevel == 2

\* Lines 39-60: one tree entry per element, a repeated key overwrites.
RECURSIVE parse_nodes(_, _)
parse_nodes(dom, tree) ==
    IF dom = <<>> THEN tree
    ELSE parse_nodes(Tail(dom),
            dict_set(tree, Head(dom).key,
                     [title |-> Head(dom).title, level |-> Head(dom).level,
                      children |-> <<>>]))

\* Lines 62-72: each element is appended to the children of its enclosing element.
RECURSIVE parse_children(_, _, _)
parse_children(dom, i, tree) ==
    IF i > Len(dom) THEN tree
    ELSE IF dom[i].parent = 0 \/ ~dict_has(tree, dom[dom[i].parent].key)
         THEN parse_children(dom, i + 1, tree)
         ELSE LET parent_id == dom[dom[i].parent].key
                  node == dict_at(tree, parent_id)
              IN parse_children(dom, i + 1,
                    dict_set(tree, parent_id,
                             [node EXCEPT !.children = Append(@, dom[i].key)]))

parse_collection_hierarchy(dom) == parse_children(dom, 1, parse_nodes(dom, <<>>))

\* Lines 96-99: the path of a collection under current_path.
child_path(current_path, title) ==
    IF current_path # <<>> THEN current_path \o <<"/">> \o title ELSE title

\* Lines 88-106: build_path and the loop over its children; `todo` is the
\* stack of pending (collection_id, current_path) calls, depth first, each with
\* the ids of the calls it is nested in.  A call nested in a call for the same
\* id repeats it without end: Python ends the recursion with RecursionError.
RECURSIVE build_paths(_, _, _)
build_paths(tree, todo, acc) ==
    IF todo = <<>> THEN [raised |-> "", paths |-> acc]
    ELSE LET collection_id == Head(todo).id
             current_path == Head(todo).path
         IN IF ~dict_has(tree, collection_id)
            THEN build_paths(tree, Tail(todo), acc)
            ELSE IF collection_id \in Head(todo).callers
            THEN [raised |-> "RecursionError", paths |-> <<>>]
            ELSE LET collection == dict_at(tree, collection_id)
                     full_path == child_path(current_path, collection.title)
                     calls == [i \in 1..Len(collection.children) |->
                                 [id |-> collection.children[i], path |-> full_path,
                                  callers |-> Head(todo).callers \cup {collection_id}]]
                 IN build_paths(tree, calls \o Tail(todo),
                                dict_set(acc, collection_id, full_path))

\* Lines 108-111: the collections at the root level start a path, in dict order.
root_calls(tree) ==
    LET roots == SelectSeq(tree, LAMBDA e : e.v.level = RootLevel)
    IN [i \in 1..Len(roots) |-> [id |-> roots[i].k, path |-> <<>>, callers |-> {}]]

\* extract_full_paths: the paths, or the exception that ended it.
extract_full_paths(tree) == build_paths(tree, root_calls(tree), <<>>)

\* The key of an li.collection element that holds no div.item-container.
NoContainer == "no item-container"

\* Line 41: find() returns None for an element without item-container, and
\* None.get raises AttributeError; nothing catches it.
parse_raised(dom) ==
    IF \E i \in 1..Len(dom) : dom[i].key = NoContainer THEN "AttributeError" ELSE ""

\* Lines 126-134: the tree and the paths written to the mapping file, or the
\* exception that left the script before it wrote one.
create_collection_mapping(dom) ==
    IF parse_raised(dom) # ""
    THEN [raised |-> parse_raised(dom), tree |-> <<>>, paths |-> <<>>]
    ELSE LET tree == parse_collection_hierarchy(dom)
             out == extract_full_paths(tree)
         IN [raised |-> out.raised, tree |-> tree, paths |-> out.paths]

----------------------------------------------------------------------------
(* The input files.  An RDF file is [ok, elems]: ok is FALSE when ET.parse *)
(* raises; elems are the elements carrying rdf:about or being a            *)
(* z:Collection, in document order, each [kind, about, title, isPartOf,    *)
(* hasPart]: about is "" when the attribute is absent, title is <<>> when  *)
(* there is no dc:title text, isPartOf is None when there is no            *)
(* dcterms:isPartOf resource, hasPart lists the dcterms:hasPart resources. *)
(* An XML file is [ok, records]; a record is [title], the text of its      *)
(* titles/title/style element, <<>> when there is none.                    *)

None == "None"

EmptyGraph == [nodes |-> {}, title |-> <<>>, edges |-> {}]

\* Lines 109-120: every element with rdf:about and a title is an item.
rdf_items(elems, library_name) ==
    LET titled == SelectSeq(elems, LAMBDA e : e.about # "" /\ e.title # <<>>)
    IN [i \in 1..Len(titled) |->
          [item_id |-> titled[i].about,
           title |-> titled[i].title,
           normalized_title |-> normalize_title(titled[i].title),
           library |-> library_name]]

\* Lines 129-133: the collections that have an id and a title.
rdf_collection_elems(elems) ==
    SelectSeq(elems, LAMBDA e : e.kind = "Collection" /\ e.about # "" /\ e.title # <<>>)

\* Not the program: lines 147-148 altered, the depth counts the segments of the path.
depth_of_path_segments(website_path) ==
    IF website_path # <<>> THEN Len(split_slash(website_path)) ELSE 0

\* Lines 147-148: depth = len(website_path.split('/')) - 1 if website_path else 0
depth_of_path(website_path) ==
    IF website_path # <<>> THEN Len(split_slash(website_path)) - 1 ELSE 0

\* Lines 146-157: the row of one collection.
collection_row(e, library_name, wh) ==
    LET website_path == dict_get(wh, e.about, <<>>)
    IN [collection_id |-> e.about,
        title |-> e.title,
        parent_id |-> e.isPartOf,
        library |-> library_name,
        website_path |-> website_path,
        depth |-> depth_of_path(website_path)]

\* Lines 160-169: the membership rows of one collection.
membership_rows(e, library_name, wh) ==
    LET parts == SelectSeq(e.hasPart, LAMBDA item_id : item_id # "")
    IN [i \in 1..Len(parts) |->
          [collection_id |-> e.about,
           collection_title |-> e.title,
           item_id |-> parts[i],
           library |-> library_name,
           website_path |-> dict_get(wh, e.about, <<>>)]]

\* Lines 127-144: add_node for each collection, add_edge for each parent reference.
RECURSIVE build_graph(_, _)
build_graph(colls, g) ==
    IF colls = <<>> THEN g
    ELSE LET e == Head(colls)
             g1 == [g EXCEPT !.nodes = @ \cup {e.about},
                             !.title = dict_set(@, e.about, e.title)]
             g2 == IF e.isPartOf # None /\ e.isPartOf # ""
                   THEN [g1 EXCEPT !.nodes = @ \cup {e.isPartOf},
                                   !.edges = @ \cup {<<e.isPartOf, e.about>>}]
                   ELSE g1
         IN build_graph(Tail(colls), g2)

\* extract_from_rdf: the three tables and the graph; stored is FALSE when the
\* except branch of lines 187-189 returned three empty DataFrames.
extract_from_rdf(rdf, library_name, wh) ==
    IF ~rdf.ok
    THEN [items |-> <<>>, collections |-> <<>>, collection_items |-> <<>>,
          graph |-> EmptyGraph, stored |-> FALSE]
    ELSE LET colls == rdf_collection_elems(rdf.elems)
         IN [items |-> rdf_items(rdf.elems, library_name),
             collections |-> [i \in 1..Len(colls) |->
                                 collection_row(colls[i], library_name, wh)],
             collection_items |-> Flatten([i \in 1..Len(colls) |->
                                 membership_rows(colls[i], library_name, wh)]),
             graph |-> build_graph(colls, EmptyGraph),
             stored |-> TRUE]

\* Lines 209-263: the records that have a title, with the stripped title and its key.
extract_from_dedup_xml(xml, library_name) ==
    IF ~xml.ok THEN <<>>
    ELSE LET titled == SelectSeq(xml.records, LAMBDA r : r.title # <<>>)
         IN [i \in 1..Len(titled) |->
               [title |-> strip(titled[i].title),
                normalized_title |-> normalize_title(titled[i].title),
                library |-> library_name]]

----------------------------------------------------------------------------
(* process_libraries: the overlap of the record sets (lines 299-307).      *)

\* Not the program: lines 300-301 altered, the set is taken of the raw titles.
title_set_raw(records) == {records[i].title : i \in 1..Len(records)}

\* set(records['normalized_title'].dropna())
title_set(records) == {records[i].normalized_title : i \in 1..Len(records)}

\* Not the program: line 305 altered, the Portal-only count is taken against the Search titles.
overlap_counts_against_search(portal_titles, search_titles) ==
    LET common_titles == portal_titles \cap search_titles
    IN [common_titles |-> common_titles,
        portal_only |-> Cardinality(portal_titles \ common_titles) +
                          Cardinality(search_titles \ portal_titles),
        search_only |-> Cardinality(search_titles) - Cardinality(common_titles),
        overlap |-> Cardinality(common_titles)]

overlap_counts(portal_titles, search_titles) ==
    LET common_titles == portal_titles \cap search_titles
    IN [common_titles |-> common_titles,
        portal_only |-> Cardinality(portal_titles) - Cardinality(common_titles),
        search_only |-> Cardinality(search_titles) - Cardinality(common_titles),
        overlap |-> Cardinality(common_titles)]

----------------------------------------------------------------------------
(* process_libraries: title_to_collections (lines 316-375).                *)

\* Lines 330-341: the details of the collections one item is a member of.
collection_details(item_collections, collections) ==
    Flatten([j \in 1..Len(item_collections) |->
        LET coll_id == item_collections[j].collection_id
            coll_info == SelectSeq(collections, LAMBDA c : c.collection_id = coll_id)
        IN IF coll_info = <<>> THEN <<>>
           ELSE <<[id |-> coll_id,
                   title |-> coll_info[1].title,
                   path |-> IF coll_info[1].website_path # <<>>
                            THEN coll_info[1].website_path
                            ELSE coll_info[1].title,
                   depth |-> coll_info[1].depth]>>])

\* Not the program: lines 343-346 and 372-375 altered, the entry of a title is
\* made anew for each item.
title_entry_anew(t2c, norm_title, library, details) ==
    IF library = "Portal" THEN [Portal |-> details, Search |-> <<>>]
                          ELSE [Portal |-> <<>>, Search |-> details]

\* Lines 343-346 and 372-375: the entry of a title after one item of `library`.
title_entry(t2c, norm_title, library, details) ==
    IF ~dict_has(t2c, norm_title)
    THEN IF library = "Portal" THEN [Portal |-> details, Search |-> <<>>]
                               ELSE [Portal |-> <<>>, Search |-> details]
    ELSE IF library = "Portal" THEN [dict_at(t2c, norm_title) EXCEPT !.Portal = details]
                               ELSE [dict_at(t2c, norm_title) EXCEPT !.Search = details]

\* Lines 320-346 (Portal) and 349-375 (Search): the loop over the items of a library.
RECURSIVE map_titles(_, _, _, _, _)
map_titles(items, collection_items, collections, library, t2c) ==
    IF items = <<>> THEN t2c
    ELSE LET item == Head(items)
             item_collections ==
                 SelectSeq(collection_items, LAMBDA m : m.item_id = item.item_id)
         IN IF item_collections = <<>>
            THEN map_titles(Tail(items), collection_items, collections, library, t2c)
            ELSE map_titles(Tail(items), collection_items, collections, library,
                    dict_set(t2c, item.normalized_title,
                        title_entry(t2c, item.normalized_title, library,
                            collection_details(item_collections, collections))))

----------------------------------------------------------------------------
(* process_libraries: collection statistics (lines 377-426).               *)

\* Lines 388-409: the rows one title contributes, Portal's first.
analysis_rows(entry, common_titles) ==
    LET row(library, coll) ==
            [normalized_title |-> entry.k,
             library |-> library,
             collection_id |-> coll.id,
             collection_title |-> coll.title,
             collection_path |-> coll.path,
             collection_depth |-> coll.depth,
             is_overlap |-> entry.k \in common_titles]
    IN [j \in 1..Len(entry.v.Portal) |-> row("Portal", entry.v.Portal[j])] \o
       [j \in 1..Len(entry.v.Search) |-> row("Search", entry.v.Search[j])]

collection_analysis(t2c, common_titles) ==
    Flatten([i \in 1..Len(t2c) |-> analysis_rows(t2c[i], common_titles)])

\* The group key of lines 415-421.
group_key(r) ==
    [library |-> r.library, collection_path |-> r.collection_path,
     collection_title |-> r.collection_title, collection_depth |-> r.collection_depth]

\* The order groupby sorts its keys in; sort_values(['library', 'collection_path']),
\* line 426, is stable and keeps it.
key_less(a, b) ==
    IF a.library # b.library THEN a.library = "Portal"
    ELSE IF a.collection_path # b.collection_path
         THEN str_less(a.collection_path, b.collection_path)
    ELSE IF a.collection_title # b.collection_title
         THEN str_less(a.collection_title, b.collection_title)
    ELSE a.collection_depth < b.collection_depth

\* The distinct elements of a sequence, in the order of their first occurrence.
RECURSIVE distinct(_, _)
distinct(s, acc) ==
    IF s = <<>> THEN acc
    ELSE distinct(Tail(s), IF Head(s) \in Range(acc) THEN acc ELSE Append(acc, Head(s)))

\* The undefined percentage: pandas divides 0 by 0 to NaN and does not raise.
NaN == -1

\* Not the program: line 423 altered, the percentage is truncated, not rounded.
overlap_percentage_truncated(overlap_items, total_items, tie_up) ==
    (10000 * overlap_items) \div total_items

\* Line 423: (overlap_items / total_items * 100).round(2), in hundredths of a
\* percent.  numpy rounds the float product to the nearest integer; on an exact
\* tie the float error of the quotient decides the side (1/32 gives 3.12, the
\* even neighbour, 23/160 gives 14.37, the odd one): tie_up is that side.
overlap_percentage(overlap_items, total_items, tie_up) ==
    IF total_items = 0 THEN NaN
    ELSE LET q == (10000 * overlap_items) \div total_items
             r == (10000 * overlap_items) % total_items
         IN IF 2 * r < total_items THEN q
            ELSE IF 2 * r > total_items THEN q + 1
            ELSE IF tie_up THEN q + 1 ELSE q

\* Not the program: line 415 altered, only the overlapping rows are counted.
group_size_overlapping(rows, key) ==
    Len(SelectSeq(rows, LAMBDA r : group_key(r) = key /\ r.is_overlap))

\* Line 415: groupby(...).size()
group_size(rows, key) == Len(SelectSeq(rows, LAMBDA r : group_key(r) = key))

\* Not the program: line 418 altered, the overlapping rows are grouped without the library.
group_overlap_any_library(rows, key) ==
    Len(SelectSeq(rows, LAMBDA r : /\ r.collection_path = key.collection_path
                                   /\ r.collection_title = key.collection_title
                                   /\ r.collection_depth = key.collection_depth
                                   /\ r.is_overlap))

\* Lines 418-422: the size of the group among the overlapping rows, 0 when the
\* left merge finds none.
group_overlap(rows, key) ==
    Len(SelectSeq(rows, LAMBDA r : group_key(r) = key /\ r.is_overlap))

\* Lines 415-426: one row per group, with its size, its overlapping rows and the
\* percentage.
collection_stats(rows, tie_up) ==
    LET keys == SortSeq(distinct([i \in 1..Len(rows) |-> group_key(rows[i])], <<>>),
                        key_less)
    IN [i \in 1..Len(keys) |->
          LET total_items == group_size(rows, keys[i])
              overlap_items == group_overlap(rows, keys[i])
          IN [library |-> keys[i].library,
              collection_path |-> keys[i].collection_path,
              collection_title |-> keys[i].collection_title,
              collection_depth |-> keys[i].collection_depth,
              total_items |-> total_items,
              overlap_items |-> overlap_items,
              overlap_percentage |->
                  overlap_percentage(overlap_items, total_items, tie_up)]]

----------------------------------------------------------------------------
(* process_libraries, after the eight tables are extracted (lines 294-444).*)
(* Indexing a column of a DataFrame that has none raises KeyError: the     *)
(* records at lines 300-301, the memberships at lines 326 and 355 (reached *)
(* when the library has an item), the analysis rows at line 415.           *)

NoResults ==
    [portal_titles |-> {}, search_titles |-> {}, common_titles |-> {},
     portal_only |-> 0, search_only |-> 0, overlap |-> 0,
     all_records |-> <<>>, all_collections |-> <<>>, all_collection_items |-> <<>>,
     title_to_collections |-> <<>>, collection_analysis |-> <<>>,
     collection_stats |-> <<>>]

analyze(p, p_records, s, s_records, tie_up) ==
    LET p_items == p.items
        p_colls == p.collections
        p_members == p.collection_items
        s_items == s.items
        s_colls == s.collections
        s_members == s.collection_items
        portal_titles == title_set(p_records)
        search_titles == title_set(s_records)
        counts == overlap_counts(portal_titles, search_titles)
        t2c_portal == map_titles(p_items, p_members, p_colls, "Portal", <<>>)
        t2c == map_titles(s_items, s_members, s_colls, "Search", t2c_portal)
        rows == collection_analysis(t2c, counts.common_titles)
    IN IF p_records = <<>> \/ s_records = <<>>
       THEN [raised |-> "KeyError", line |-> IF p_records = <<>> THEN 300 ELSE 301,
             results |-> NoResults]
       ELSE IF p_items # <<>> /\ p_members = <<>>
       THEN [raised |-> "KeyError", line |-> 326, results |-> NoResults]
       ELSE IF s_items # <<>> /\ s_members = <<>>
       THEN [raised |-> "KeyError", line |-> 355, results |-> NoResults]
       ELSE IF rows = <<>>
       THEN [raised |-> "KeyError", line |-> 415, results |-> NoResults]
       ELSE [raised |-> "", line |-> 444,
             results |->
                [portal_titles |-> portal_titles,
                 search_titles |-> search_titles,
                 common_titles |-> counts.common_titles,
                 portal_only |-> counts.portal_only,
                 search_only |-> counts.search_only,
                 overlap |-> counts.overlap,
                 all_records |-> p_records \o s_records,
                 all_collections |-> p_colls \o s_colls,
                 all_collection_items |-> p_members \o s_members,
                 title_to_collections |-> t2c,
                 collection_analysis |-> rows,
                 collection_stats |-> collection_stats(rows, tie_up)]]

----------------------------------------------------------------------------
(* identify_collection_gaps (lines 698-719).                               *)

\* Not the program: line 717 altered, the rows are sorted by the percentage alone.
gap_less_percentage_only(a, b) == a.overlap_percentage < b.overlap_percentage

\* Line 717: the order of ['overlap_percentage', 'collection_path'].
gap_less(a, b) ==
    \/ a.overlap_percentage < b.overlap_percentage
    \/ /\ a.overlap_percentage = b.overlap_percentage
       /\ str_less(a.collection_path, b.collection_path)

\* sort_values on several columns is stable: each row goes behind the rows that
\* are not greater than it.
RECURSIVE insert_row(_, _)
insert_row(sorted, row) ==
    IF sorted = <<>> THEN <<row>>
    ELSE IF gap_less(row, Head(sorted)) THEN <<row>> \o sorted
    ELSE <<Head(sorted)>> \o insert_row(Tail(sorted), row)

RECURSIVE sort_values(_)
sort_values(rows) ==
    IF rows = <<>> THEN <<>>
    ELSE insert_row(sort_values(SubSeq(rows, 1, Len(rows) - 1)), rows[Len(rows)])

\* Lines 711-719.
identify_collection_gaps(collection_stats_rows, min_items) ==
    sort_values(SelectSeq(collection_stats_rows, LAMBDA r : r.total_items >= min_items))

----------------------------------------------------------------------------
(* visualize_website_hierarchy (lines 652-668): the graph that is drawn.   *)

\* Lines 659-668: an edge to each collection whose path has several parts, from
\* the first collection of the map whose path is the parts before the last.
website_edges(wh) ==
    {<<wh[j].k, wh[i].k>> : i \in 1..Len(wh), j \in 1..Len(wh)} \cap
    {e \in dict_keys_set(wh) \X dict_keys_set(wh) :
        LET parts == split_slash(dict_at(wh, e[2]))
            parent_path == join(<<"/">>, SubSeq(parts, 1, Len(parts) - 1))
            hits == SelectSeq(wh, LAMBDA x : x.v = parent_path)
        IN Len(parts) > 1 /\ hits # <<>> /\ hits[1].k = e[1]}

\* Lines 652-668: the nodes with their labels, and the edges.
website_graph(wh) ==
    [nodes |-> dict_keys_set(wh),
     label |-> [i \in 1..Len(wh) |->
                  [k |-> wh[i].k,
                   v |-> split_slash(wh[i].v)[Len(split_slash(wh[i].v))]]],
     edges |-> website_edges(wh)]

----------------------------------------------------------------------------
(* export_website_hierarchy (lines 882-918): the rows written to the CSV.  *)

\* Lines 897-902: the first collection whose path is parent_path, "" when none.
find_parent(wh, parent_path) ==
    LET hits == SelectSeq(wh, LAMBDA e : e.v = parent_path)
    IN IF hits = <<>> THEN "" ELSE hits[1].k

hierarchy_data(wh) ==
    [i \in 1..Len(wh) |->
        LET parts == split_slash(wh[i].v)
            parent_path == IF Len(parts) > 1
                           THEN join(<<"/">>, SubSeq(parts, 1, Len(parts) - 1))
                           ELSE <<>>
        IN [collection_id |-> wh[i].k,
            title |-> parts[Len(parts)],
            path |-> wh[i].v,
            depth |-> Len(parts) - 1,
            parent_id |-> find_parent(wh, parent_path),
            parent_path |-> parent_path]]

----------------------------------------------------------------------------
(* The methods that read analysis_results (lines 446-636, 698-870,         *)
(* 920-1237): what each hands to the drawing or writes to its file.        *)

\* Not the program: the checks of lines 456-930 altered, to
\* `if not self.analysis_results['overlap']`.
no_results_or_no_overlap(stored) == stored = <<>> \/ stored[1].overlap = 0

\* `not self.analysis_results` (lines 456, 493, 529, 570, 708, 731, 764, 791,
\* 837, 930): None is falsy, the dict of lines 429-442 has twelve keys and is not.
no_results(stored) == stored = <<>>

ValueError == "ValueError"

DefaultMinItems == 5    \* min_items=5
TopN == 15              \* top_n=15
HeatmapTop == 15        \* nlargest(15, 'total_items')
TopGaps == 10           \* gap_analysis.head(10)

\* Lines 462-465: the subsets of the Venn diagram.
venn_subsets(r) == <<r.portal_only, r.search_only, r.overlap>>

\* nlargest(n, 'total_items'): the n rows of the largest total_items, largest
\* first, equal ones in the order of the frame.
RECURSIVE nlargest(_, _)
nlargest(n, rows) ==
    IF n = 0 \/ rows = <<>> THEN <<>>
    ELSE LET i == CHOOSE i \in 1..Len(rows) :
                    /\ \A j \in 1..Len(rows) : rows[j].total_items <= rows[i].total_items
                    /\ \A j \in 1..(i - 1) : rows[j].total_items < rows[i].total_items
         IN <<rows[i]>> \o
            nlargest(n - 1, SubSeq(rows, 1, i - 1) \o SubSeq(rows, i + 1, Len(rows)))

\* Lines 583-584: the order of ['collection_depth', 'collection_path'].
depth_path_less(a, b) ==
    \/ a.collection_depth < b.collection_depth
    \/ /\ a.collection_depth = b.collection_depth
       /\ str_less(a.collection_path, b.collection_path)

RECURSIVE insert_by_depth(_, _)
insert_by_depth(sorted, row) ==
    IF sorted = <<>> THEN <<row>>
    ELSE IF depth_path_less(row, Head(sorted)) THEN <<row>> \o sorted
    ELSE <<Head(sorted)>> \o insert_by_depth(Tail(sorted), row)

RECURSIVE sort_by_depth(_)
sort_by_depth(rows) ==
    IF rows = <<>> THEN <<>>
    ELSE insert_by_depth(sort_by_depth(SubSeq(rows, 1, Len(rows) - 1)), rows[Len(rows)])

\* Lines 601-609: the normalized titles of the rows of one library under one
\* collection title.
titles_under(r, library, collection_title) ==
    {row.normalized_title : row \in
        {x \in Range(r.collection_analysis) :
            x.library = library /\ x.collection_title = collection_title}}

\* Lines 573-614: the labels of the heatmap and, per cell, the overlap and the
\* number of Portal titles it is divided by (0 of 0 where the cell stays 0).
heatmap(r, min_items) ==
    LET significant == SelectSeq(r.collection_stats, LAMBDA x : x.total_items >= min_items)
        top_portal == nlargest(HeatmapTop,
            sort_by_depth(SelectSeq(significant, LAMBDA x : x.library = "Portal")))
        top_search == nlargest(HeatmapTop,
            sort_by_depth(SelectSeq(significant, LAMBDA x : x.library = "Search")))
    IN [row_labels |-> [i \in 1..Len(top_portal) |-> top_portal[i].collection_title],
        col_labels |-> [j \in 1..Len(top_search) |-> top_search[j].collection_title],
        data |-> [i \in 1..Len(top_portal) |-> [j \in 1..Len(top_search) |->
            LET p_titles == titles_under(r, "Portal", top_portal[i].collection_title)
                s_titles == titles_under(r, "Search", top_search[j].collection_title)
            IN IF p_titles # {} /\ s_titles # {}
               THEN [overlap |-> Cardinality(p_titles \cap s_titles),
                     of |-> Cardinality(p_titles)]
               ELSE [overlap |-> 0, of |-> 0]]]]

\* Lines 738-745: the counts written to analysis_results.json.
serializable_results(r) ==
    [portal_only |-> r.portal_only, search_only |-> r.search_only, overlap |-> r.overlap,
     portal_total |-> Cardinality(r.portal_titles),
     search_total |-> Cardinality(r.search_titles),
     common_total |-> Cardinality(r.common_titles)]

\* Lines 771-774: the records whose normalized title is common to both libraries.
matched_records(r) ==
    SelectSeq(r.all_records, LAMBDA x : x.normalized_title \in r.common_titles)

\* Lines 844-862: one row per title of title_to_collections.
title_collections_data(r) ==
    [i \in 1..Len(r.title_to_collections) |->
        LET title == r.title_to_collections[i].k
            collections == r.title_to_collections[i].v
            record == SelectSeq(r.all_records, LAMBDA x : x.normalized_title = title)
        IN [title |-> IF record # <<>> THEN record[1].title ELSE title,
            normalized_title |-> title,
            portal_collections |->
                join(<<";", " ">>,
                     [j \in 1..Len(collections.Portal) |-> collections.Portal[j].path]),
            search_collections |->
                join(<<";", " ">>,
                     [j \in 1..Len(collections.Search) |-> collections.Search[j].path]),
            is_overlap |-> title \in r.common_titles]]

\* Lines 961-962: the rows of the gap table shown in the page.
top_gaps(r) ==
    LET gap_analysis == identify_collection_gaps(r.collection_stats, DefaultMinItems)
    IN SubSeq(gap_analysis, 1, IF Len(gap_analysis) < TopGaps THEN Len(gap_analysis)
                                ELSE TopGaps)

----------------------------------------------------------------------------
(* Bounds and input sets.                                                  *)

MaxLen == 3             \* characters of a title given to normalize_title
MaxRecords == 3         \* records of the Portal XML file
MaxSearchRecords == 2   \* records of the Search XML file
MaxParts == 2           \* hasPart references of one collection
MaxNodes == 2           \* li.collection elements of the HTML document
MaxTotalItems == 20001  \* total_items of a statistics row
SmallTotalItems == 12   \* up to here every overlap_items is tried
MaxMinItems == 3        \* min_items given to identify_collection_gaps

\* Titles: T1 and T2 normalize to the same key.
T1 == <<"A", " ", "b">>
T2 == <<"a", " ", " ", "B", "!">>
T3 == <<"B">>
T4 == <<"A", "1">>

CA == <<"A">>
CB == <<"B">>
CSlash == <<"A", "/", "B">>

XmlFile(titles) == [ok |-> TRUE, records |-> [i \in 1..Len(titles) |-> [title |-> titles[i]]]]
UnreadableXml == [ok |-> FALSE, records |-> <<>>]

RecordTitles == {T1, T2, T3, T4, <<>>}

PortalXmlInputs == {XmlFile(ts) : ts \in SeqsUpTo(RecordTitles, MaxRecords)} \cup {UnreadableXml}
SearchXmlInputs == {XmlFile(ts) : ts \in SeqsUpTo(RecordTitles, MaxSearchRecords)}
                      \cup {UnreadableXml}

Item(id, title) ==
    [kind |-> "Item", about |-> id, title |-> title, isPartOf |-> None, hasPart |-> <<>>]
Collection(id, title, parent, parts) ==
    [kind |-> "Collection", about |-> id, title |-> title, isPartOf |-> parent,
     hasPart |-> parts]
RdfFile(elems) == [ok |-> TRUE, elems |-> elems]
UnreadableRdf == [ok |-> FALSE, elems |-> <<>>]

\* A Search library of one collection, titled as Portal's c1, holding one item.
SearchRdf == RdfFile(<<Item("s1", T1), Collection("c3", CA, None, <<"s1">>)>>)
PortalRdf == RdfFile(<<Item("i1", T1), Collection("c1", CA, None, <<"i1">>)>>)
GapsSearchRdf ==
    RdfFile(<<Item("s1", T1), Item("s2", T3), Collection("c3", CA, None, <<"s1", "s2">>)>>)
\* An RDF file whose items belong to no collection.
NoMembersRdf == RdfFile(<<Item("i1", T1)>>)
PipelineRdfInputs == {PortalRdf, SearchRdf, NoMembersRdf, RdfFile(<<>>), UnreadableRdf}
PipelineXmlInputs == {XmlFile(<<T1, T3>>), XmlFile(<<T1>>), XmlFile(<<>>), UnreadableXml}
PortalXml == XmlFile(<<T1, T3>>)
SearchXml == XmlFile(<<T1>>)

\* The arguments of the calls of process_libraries in a session of several calls.
SessionArgs ==
    {<<portal_rdf, portal_xml, search_rdf, search_xml, FALSE>> :
        portal_rdf \in {PortalRdf, NoMembersRdf, UnreadableRdf},
        portal_xml \in {PortalXml, XmlFile(<<>>)},
        search_rdf \in {SearchRdf, GapsSearchRdf},
        search_xml \in {SearchXml, XmlFile(<<T4>>)}}

\* Libraries of two items in two collections, c2 under c1: the item titles and
\* the hasPart lists vary (a list may name an item twice, or the collection c2).
StatsRdfInputs ==
    {RdfFile(<<Item("i1", t1), Item("i2", t2),
               Collection("c1", CA, None, h1), Collection("c2", CB, "c1", h2)>>) :
        t1 \in {T1, T3}, t2 \in {T1, T2, T3},
        h1 \in SeqsUpTo({"i1", "i2", "c2"}, MaxParts), h2 \in SeqsUpTo({"i1", "i2"}, MaxParts)}

StatsSearchXmlInputs == {XmlFile(<<T1>>), XmlFile(<<T3>>), XmlFile(<<T4, T1, T3>>)}

\* Libraries of two collections whose parent references vary.
HierRdfInputs ==
    {RdfFile(<<Item("i1", T1),
               Collection("c1", CA, p1, <<"i1">>), Collection("c2", t2, p2, <<"i1">>)>>) :
        p1 \in {None, "c2"}, p2 \in {None, "c1", "cX"}, t2 \in {CB, CSlash}}

\* The library names given to extract_from_rdf, and the files.
LibraryNames == {"Portal", "Search", "Archive"}
ExtractRdfInputs == HierRdfInputs \cup {SearchRdf, RdfFile(<<>>), UnreadableRdf}

\* The RDF files that another run may have for a library.
OtherRdfInputs == {PortalRdf, SearchRdf, GapsSearchRdf, RdfFile(<<>>), UnreadableRdf}

\* The HTML documents: the parent of an element is an element before it that
\* is still open, so the parents follow the nesting of the document.
Node(key, title, level, parent) ==
    [key |-> key, title |-> title, level |-> level, parent |-> parent]

RECURSIVE Ancestors(_, _)
Ancestors(dom, i) ==
    IF i = 0 \/ dom[i].parent = 0 THEN {}
    ELSE {dom[i].parent} \cup Ancestors(dom, dom[i].parent)

Nested(dom) ==
    \A i \in 1..Len(dom) :
        dom[i].parent \in {0} \cup (IF i = 1 THEN {} ELSE {i - 1} \cup Ancestors(dom, i - 1))

DomInputs ==
    {dom \in SeqsUpTo([key : {"c1", "c2"}, title : {CA, CSlash, <<>>},
                       level : {RootLevel, RootLevel + 1}, parent : 0..(MaxNodes - 1)],
                      MaxNodes) : Nested(dom)}

\* Documents of three collections, two of them roots: c3 under the second root,
\* or c2 under the first.
WideDomInputs ==
    {<<Node("c1", CA, RootLevel, 0), Node("c2", t, RootLevel, 0),
       Node("c3", CB, RootLevel + 1, 2)>> : t \in {CA, CB}} \cup
    {<<Node("c1", CA, RootLevel, 0), Node("c2", CB, RootLevel + 1, 1),
       Node("c3", t, RootLevel, 0)>> : t \in {CA, CB}}

\* Documents with an li.collection element that holds no item-container, before
\* or behind a well-formed one.
MalformedDomInputs ==
    {<<Node(NoContainer, <<>>, RootLevel, 0), Node("c1", CA, RootLevel, 0)>>,
     <<Node("c1", CA, RootLevel, 0), Node(NoContainer, <<>>, RootLevel, 0)>>,
     <<Node("c1", CA, RootLevel, 0), Node("c2", CB, RootLevel + 1, 1),
       Node(NoContainer, <<>>, RootLevel, 0)>>}

\* The documents of the statistics runs: none, and c2 under c1.
SmallDomInputs ==
    {<<>>, <<Node("c1", CA, RootLevel, 0), Node("c2", CB, RootLevel + 1, 1)>>}

----------------------------------------------------------------------------
(* The state after create_collection_mapping (parse_website_hierarchy.py   *)
(* lines 126-134) wrote the mapping of an HTML document (no file when it   *)
(* raised), ZoteroLibraryAnalyzer.__init__ (lines 50-69) loaded it, and    *)
(* the caller is about to call `op` with `args`.                           *)

ConstructedThen(dom, op, args) ==
    /\ html_file = dom
    /\ collection_tree = create_collection_mapping(dom).tree
    /\ paths = create_collection_mapping(dom).paths
    /\ mapping_raised = create_collection_mapping(dom).raised
    /\ website_hierarchy = paths
    /\ portal_items = <<>> /\ portal_collections = <<>>
    /\ portal_collection_items = <<>> /\ portal_records = <<>>
    /\ search_items = <<>> /\ search_collections = <<>>
    /\ search_collection_items = <<>> /\ search_records = <<>>
    /\ portal_hierarchy = EmptyGraph /\ search_hierarchy = EmptyGraph
    /\ analysis_results = <<>>
    /\ call = [op |-> op, args |-> args, state |-> "called"]
    /\ ret = None

----------------------------------------------------------------------------
(* The operations.                                                         *)

Called(op) == call.op = op /\ call.state = "called"

Returned == [call EXCEPT !.state = "returned"]

Raised == [call EXCEPT !.state = "raised"]

\* normalize_title(title), lines 72-89; the caller may call it again on the
\* same title.
NormalizeTitle ==
    LET out == normalize_title_call(call.args[1])
    IN /\ call.op = "normalize_title" /\ call.state \in {"called", "returned"}
       /\ call' = IF out.raised = "" THEN Returned ELSE Raised
       /\ ret' = out.value
    /\ UNCHANGED <<html_file, collection_tree, paths, mapping_raised, website_hierarchy, tables,
                   portal_hierarchy, search_hierarchy, analysis_results>>

\* process_libraries(portal_rdf, portal_xml, search_rdf, search_xml), lines 273-444;
\* call.args[5] is the side to which line 423 rounds a tie.
\* Not the program: `self.analysis_results = None` added at line 286, so that a
\* run that raises leaves no results.
stored_results_reset(out, previous) ==
    IF out.raised = "" THEN <<out.results>> ELSE <<>>

\* Lines 429-442 are the only assignment to analysis_results, and the last
\* step before the return: a run that raised has not reached it.
stored_results(out, previous) ==
    IF out.raised = "" THEN <<out.results>> ELSE previous

process_libraries(args) ==
    LET p == extract_from_rdf(args[1], "Portal", website_hierarchy)
        s == extract_from_rdf(args[3], "Search", website_hierarchy)
        p_records == extract_from_dedup_xml(args[2], "Portal")
        s_records == extract_from_dedup_xml(args[4], "Search")
        out == analyze(p, p_records, s, s_records, args[5])
    IN /\ portal_items' = p.items
       /\ portal_collections' = p.collections
       /\ portal_collection_items' = p.collection_items
       /\ portal_records' = p_records
       /\ search_items' = s.items
       /\ search_collections' = s.collections
       /\ search_collection_items' = s.collection_items
       /\ search_records' = s_records
       /\ portal_hierarchy' = IF p.stored THEN p.graph ELSE portal_hierarchy
       /\ search_hierarchy' = IF s.stored THEN s.graph ELSE search_hierarchy
       /\ analysis_results' = stored_results(out, analysis_results)
       /\ call' = [op |-> "process_libraries", args |-> args, state |-> "returned"]
       /\ ret' = [raised |-> out.raised, line |-> out.line]
       /\ UNCHANGED <<html_file, collection_tree, paths, mapping_raised, website_hierarchy>>

\* The call that the caller was about to make.
ProcessLibraries == Called("process_libraries") /\ process_libraries(call.args)

\* A further call of process_libraries on the same analyzer.
ProcessLibrariesAgain ==
    /\ call.state \in {"returned", "raised"}
    /\ \E args \in SessionArgs : process_libraries(args)

\* Line 423 on the statistics row held in `call`
RoundPercentage ==
    /\ Called("overlap_percentage")
    /\ call' = Returned
    /\ ret' = overlap_percentage(call.args[1], call.args[2], call.args[3])
    /\ UNCHANGED <<html_file, collection_tree, paths, mapping_raised, website_hierarchy, tables,
                   portal_hierarchy, search_hierarchy, analysis_results>>

\* export_website_hierarchy(), lines 872-918
ExportWebsiteHierarchy ==
    /\ call.state = "returned"
    /\ call' = [op |-> "export_website_hierarchy", args |-> <<>>, state |-> "returned"]
    /\ ret' = IF website_hierarchy = <<>> THEN <<>> ELSE hierarchy_data(website_hierarchy)
    /\ UNCHANGED <<html_file, collection_tree, paths, mapping_raised, website_hierarchy, tables,
                   portal_hierarchy, search_hierarchy, analysis_results>>

\* identify_collection_gaps(min_items), lines 698-719: ValueError at line 709
\* when no analysis results are stored.
IdentifyCollectionGaps ==
    /\ call.state \in {"returned", "raised"}
    /\ \E min_items \in 1..MaxMinItems :
          /\ call' = [op |-> "identify_collection_gaps", args |-> <<min_items>>,
                      state |-> IF no_results(analysis_results) THEN "raised"
                                ELSE "returned"]
          /\ ret' = IF no_results(analysis_results) THEN <<>>
                    ELSE identify_collection_gaps(analysis_results[1].collection_stats,
                                                  min_items)
    /\ UNCHANGED <<html_file, collection_tree, paths, mapping_raised, website_hierarchy, tables,
                   portal_hierarchy, search_hierarchy, analysis_results>>

\* visualize_website_hierarchy(), lines 638-696: None without a website
\* hierarchy, else the figure of the graph.
VisualizeWebsiteHierarchy ==
    /\ call.state = "returned"
    /\ call' = [op |-> "visualize_website_hierarchy", args |-> <<>>, state |-> "returned"]
    /\ ret' = IF website_hierarchy = <<>> THEN None ELSE website_graph(website_hierarchy)
    /\ UNCHANGED <<html_file, collection_tree, paths, mapping_raised, website_hierarchy,
                   tables, portal_hierarchy, search_hierarchy, analysis_results>>

\* extract_from_rdf(rdf_path, library_name), lines 91-189, called on its own:
\* lines 172-175 store the graph, the except branch of lines 187-189 does not.
ExtractFromRdf ==
    /\ call.state \in {"returned", "raised"}
    /\ \E rdf \in ExtractRdfInputs, library_name \in LibraryNames :
          LET x == extract_from_rdf(rdf, library_name, website_hierarchy)
          IN /\ portal_hierarchy' = IF x.stored /\ library_name = "Portal"
                                    THEN x.graph ELSE portal_hierarchy
             /\ search_hierarchy' = IF x.stored /\ library_name # "Portal"
                                    THEN x.graph ELSE search_hierarchy
             /\ call' = [op |-> "extract_from_rdf", args |-> <<rdf, library_name>>,
                         state |-> "returned"]
             /\ ret' = <<x.items, x.collections, x.collection_items>>
    /\ UNCHANGED <<html_file, collection_tree, paths, mapping_raised, website_hierarchy, tables,
                   analysis_results>>

\* A method that begins with `if not self.analysis_results: raise ValueError`
\* and then reads the results; it assigns no attribute of the analyzer.
use_results(op, args, output) ==
    /\ call.state \in {"returned", "raised"}
    /\ call' = [op |-> op, args |-> args,
                state |-> IF no_results(analysis_results) THEN "raised" ELSE "returned"]
    /\ ret' = IF no_results(analysis_results) THEN ValueError ELSE output
    /\ UNCHANGED <<html_file, collection_tree, paths, mapping_raised, website_hierarchy, tables,
                   portal_hierarchy, search_hierarchy, analysis_results>>

\* visualize_overlap(), lines 446-481
VisualizeOverlap == use_results("visualize_overlap", <<>>, venn_subsets(analysis_results[1]))

\* visualize_document_types(), lines 483-516: the records carry no ref-type, so
\* all_records has no 'type' column and line 499 returns None.
VisualizeDocumentTypes == use_results("visualize_document_types", <<>>, None)

\* visualize_collection_distribution(), lines 518-557
VisualizeCollectionDistribution ==
    use_results("visualize_collection_distribution", <<>>,
                nlargest(TopN, analysis_results[1].collection_stats))

\* visualize_collection_overlap_heatmap(min_items), lines 559-636
VisualizeCollectionOverlapHeatmap ==
    \E min_items \in 1..MaxMinItems :
        use_results("visualize_collection_overlap_heatmap", <<min_items>>,
                    heatmap(analysis_results[1], min_items))

\* export_analysis_results(), lines 721-752
ExportAnalysisResults ==
    use_results("export_analysis_results", <<>>, serializable_results(analysis_results[1]))

\* export_matched_records(), lines 754-779
ExportMatchedRecords ==
    use_results("export_matched_records", <<>>, matched_records(analysis_results[1]))

\* export_collection_analysis(), lines 781-803
ExportCollectionAnalysis ==
    use_results("export_collection_analysis", <<>>, analysis_results[1].collection_stats)

\* export_gap_analysis(min_items), lines 805-825: the ValueError is the one of
\* identify_collection_gaps, called at line 820.
ExportGapAnalysis ==
    \E min_items \in 1..MaxMinItems :
        use_results("export_gap_analysis", <<min_items>>,
                    identify_collection_gaps(analysis_results[1].collection_stats, min_items))

\* export_title_collections(), lines 827-870
ExportTitleCollections ==
    use_results("export_title_collections", <<>>, title_collections_data(analysis_results[1]))

\* generate_html_interface(), lines 920-1237: it calls the methods above, which
\* assign nothing, and writes the page.
GenerateHtmlInterface ==
    use_results("generate_html_interface", <<>>, top_gaps(analysis_results[1]))

----------------------------------------------------------------------------
(* Specifications.  Each follows one analyzer from its construction, with  *)
(* the arguments of its first call drawn from the input sets.              *)

\* normalize_title on None and on every title of up to MaxLen characters.
InitNorm ==
    \E title \in SeqsUpTo(Chars, MaxLen) \cup {NoneTitle} :
        ConstructedThen(<<>>, "normalize_title", <<title>>)
NextNorm == NormalizeTitle
SpecNorm == InitNorm /\ [][NextNorm]_vars

\* Line 423 on the rows (overlap_items, total_items).
PctOverlaps(n) ==
    IF n <= SmallTotalItems THEN 0..n ELSE {0, 1, n - 1, n}
InitPct ==
    \E n \in 1..MaxTotalItems, tie_up \in BOOLEAN :
        \E k \in PctOverlaps(n) :
            ConstructedThen(<<>>, "overlap_percentage", <<k, n, tie_up>>)
NextPct == RoundPercentage
SpecPct == InitPct /\ [][NextPct]_vars

\* process_libraries on varying record files.
InitOverlap ==
    \E portal_xml \in PortalXmlInputs, search_xml \in SearchXmlInputs :
        ConstructedThen(<<>>, "process_libraries",
                        <<PortalRdf, portal_xml, SearchRdf, search_xml, FALSE>>)
NextOverlap == ProcessLibraries
SpecOverlap == InitOverlap /\ [][NextOverlap]_vars

\* process_libraries on varying items and memberships.
InitStats ==
    \E dom \in SmallDomInputs, portal_rdf \in StatsRdfInputs,
       search_xml \in StatsSearchXmlInputs :
        ConstructedThen(dom, "process_libraries",
                        <<portal_rdf, PortalXml, SearchRdf, search_xml, FALSE>>)
NextStats == ProcessLibraries
SpecStats == InitStats /\ [][NextStats]_vars

\* process_libraries, the export and the drawing on varying documents.
InitPaths ==
    \E dom \in DomInputs \cup WideDomInputs \cup MalformedDomInputs :
        ConstructedThen(dom, "process_libraries",
                        <<PortalRdf, PortalXml, SearchRdf, SearchXml, FALSE>>)
NextPaths == ProcessLibraries \/ ExportWebsiteHierarchy \/ VisualizeWebsiteHierarchy
SpecPaths == InitPaths /\ [][NextPaths]_vars

\* process_libraries on readable, empty and unreadable files.
InitPipeline ==
    \E portal_rdf \in PipelineRdfInputs, portal_xml \in PipelineXmlInputs,
       search_rdf \in PipelineRdfInputs, search_xml \in PipelineXmlInputs :
        ConstructedThen(<<>>, "process_libraries",
                        <<portal_rdf, portal_xml, search_rdf, search_xml, FALSE>>)
NextPipeline == ProcessLibraries
SpecPipeline == InitPipeline /\ [][NextPipeline]_vars

\* process_libraries and the gap ranking on varying items and memberships.
InitGaps ==
    \E dom \in SmallDomInputs, portal_rdf \in StatsRdfInputs,
       search_xml \in StatsSearchXmlInputs :
        ConstructedThen(dom, "process_libraries",
                        <<portal_rdf, PortalXml, GapsSearchRdf, search_xml, FALSE>>)
NextGaps == ProcessLibraries \/ IdentifyCollectionGaps
SpecGaps == InitGaps /\ [][NextGaps]_vars

\* process_libraries and the export on varying hierarchies.
InitHier ==
    \E dom \in DomInputs, portal_rdf \in HierRdfInputs :
        ConstructedThen(dom, "process_libraries",
                        <<portal_rdf, PortalXml, SearchRdf, SearchXml, FALSE>>)
NextHier == ProcessLibraries \/ ExportWebsiteHierarchy
SpecHier == InitHier /\ [][NextHier]_vars

\* A session: process_libraries, called again and again, and between the
\* calls the methods that read the results.
InitSession ==
    \E args \in SessionArgs : ConstructedThen(<<>>, "process_libraries", args)
NextSession ==
    \/ ProcessLibraries
    \/ ProcessLibrariesAgain
    \/ IdentifyCollectionGaps
    \/ VisualizeOverlap
    \/ VisualizeDocumentTypes
    \/ VisualizeCollectionDistribution
    \/ VisualizeCollectionOverlapHeatmap
    \/ ExportAnalysisResults
    \/ ExportMatchedRecords
    \/ ExportCollectionAnalysis
    \/ ExportGapAnalysis
    \/ ExportTitleCollections
    \/ GenerateHtmlInterface
SpecSession == InitSession /\ [][NextSession]_vars

\* process_libraries, then extract_from_rdf on varying files and library names.
InitExtract ==
    ConstructedThen(<<>>, "process_libraries",
                    <<PortalRdf, PortalXml, SearchRdf, SearchXml, FALSE>>)
NextExtract == ProcessLibraries \/ ExtractFromRdf
SpecExtract == InitExtract /\ [][NextExtract]_vars

----------------------------------------------------------------------------
(* What the claims speak of.                                               *)

\* The last call was process_libraries and it returned its results.
Completed ==
    /\ call.op = "process_libraries" /\ call.state = "returned"
    /\ ret.raised = ""

results == analysis_results[1]

Items(library) == IF library = "Portal" THEN portal_items ELSE search_items
Collections(library) ==
    IF library = "Portal" THEN portal_collections ELSE search_collections
Memberships(library) ==
    IF library = "Portal" THEN portal_collection_items ELSE search_collection_items

\* The path a collection row resolves to (line 339): the website path, else the title.
resolved_path(c) == IF c.website_path # <<>> THEN c.website_path ELSE c.title

\* The number of separators in a path.
slashes(path) == Len(SelectSeq(path, LAMBDA c : c = "/"))

----------------------------------------------------------------------------
(* C1: in a completed process_libraries, with P and S the sets of the      *)
(* normalized titles of the Portal and Search records, common_titles is    *)
(* P \cap S, overlap its size, portal_only the size of P \ S and           *)
(* search_only the size of S \ P, so that portal_only + overlap = |P| and  *)
(* search_only + overlap = |S|; titles with one key count once.            *)
C1_OverlapCounts ==
    Completed =>
        LET P == {portal_records[i].normalized_title : i \in 1..Len(portal_records)}
            S == {search_records[i].normalized_title : i \in 1..Len(search_records)}
        IN /\ results.common_titles = P \cap S
           /\ results.overlap = Cardinality(P \cap S)
           /\ results.portal_only = Cardinality(P \ S)
           /\ results.search_only = Cardinality(S \ P)
           /\ results.portal_only + results.overlap = Cardinality(P)
           /\ results.search_only + results.overlap = Cardinality(S)

\* The scenario of the specification: Portal holds two spellings of one title
\* and a second title, Search the first title and a third one.
C1_Witness ==
    /\ Completed
    /\ call.args[2] = XmlFile(<<T1, T2, T3>>)
    /\ call.args[4] = XmlFile(<<T1, T4>>)
    /\ results.common_titles = {<<"a", " ", "b">>}
    /\ results.portal_only = 1 /\ results.search_only = 1 /\ results.overlap = 1

(* C2: the overlap is symmetric in the two libraries: computed with the    *)
(* record sets exchanged it gives the same common_titles and overlap, and  *)
(* portal_only and search_only exchanged.                                  *)
C2_OverlapSymmetric ==
    Completed =>
        LET swapped == overlap_counts(title_set(search_records), title_set(portal_records))
        IN /\ swapped.common_titles = results.common_titles
           /\ swapped.overlap = results.overlap
           /\ swapped.portal_only = results.search_only
           /\ swapped.search_only = results.portal_only

\* A run whose two libraries differ: two Portal-only titles, no Search-only one.
C2_Witness ==
    /\ Completed
    /\ results.portal_only = 2 /\ results.search_only = 0 /\ results.overlap = 1

(* C3: every statistics row of library L with path p has total_items equal *)
(* to the number of distinct normalized titles of L's items that have a    *)
(* membership row in a collection of L whose resolved path is p.           *)
C3_TotalItemsDistinctTitles ==
    Completed =>
        \A i \in 1..Len(results.collection_stats) :
            LET row == results.collection_stats[i]
                L == row.library
                at_path == {c \in Range(Collections(L)) :
                                resolved_path(c) = row.collection_path}
                members == {m \in Range(Memberships(L)) :
                                \E c \in at_path : c.collection_id = m.collection_id}
                titles == {it.normalized_title : it \in
                              {x \in Range(Items(L)) :
                                  \E m \in members : m.item_id = x.item_id}}
            IN row.total_items = Cardinality(titles)

(* C4: in every statistics row overlap_items is the number of the rows     *)
(* counted in total_items whose normalized title is common to the two      *)
(* record sets, hence 0 <= overlap_items <= total_items.                   *)
C4_OverlapItemsBounded ==
    Completed =>
        \A i \in 1..Len(results.collection_stats) :
            LET row == results.collection_stats[i]
                common == title_set(portal_records) \cap title_set(search_records)
                counted == SelectSeq(results.collection_analysis,
                                     LAMBDA r : group_key(r) = group_key(row))
                overlapping == SelectSeq(counted, LAMBDA r : r.normalized_title \in common)
            IN /\ row.total_items = Len(counted)
               /\ row.overlap_items = Len(overlapping)
               /\ 0 <= row.overlap_items /\ row.overlap_items <= row.total_items

\* A row that holds overlapping and non-overlapping titles.
C4_Witness ==
    /\ Completed
    /\ \E i \in 1..Len(results.collection_stats) :
          /\ results.collection_stats[i].overlap_items > 0
          /\ results.collection_stats[i].overlap_items
                < results.collection_stats[i].total_items

(* C5, as claimed: overlap_percentage is K/N*100 rounded to 2 decimals, in *)
(* [0, 100], 0 exactly when K = 0 and 100 exactly when K = N.              *)
C5_PercentageExactEnds ==
    (call.op = "overlap_percentage" /\ call.state = "returned") =>
        LET K == call.args[1]
            N == call.args[2]
        IN /\ 2 * Abs(ret * N - 10000 * K) <= N
           /\ 0 <= ret /\ ret <= 10000
           /\ (ret = 0 <=> K = 0)
           /\ (ret = 10000 <=> K = N)

(* C5, amended: overlap_percentage is K/N*100 rounded to 2 decimals (it is *)
(* within half a hundredth of K/N*100), in [0, 100], 0 when K = 0 and 100  *)
(* when K = N; the converses hold for N < 20000.                           *)
C5_PercentageRounded ==
    (call.op = "overlap_percentage" /\ call.state = "returned") =>
        LET K == call.args[1]
            N == call.args[2]
        IN /\ 2 * Abs(ret * N - 10000 * K) <= N
           /\ 0 <= ret /\ ret <= 10000
           /\ (K = 0 => ret = 0)
           /\ (K = N => ret = 10000)
           /\ (N < 20000 => ((ret = 0 => K = 0) /\ (ret = 10000 => K = N)))

\* One overlapping title among 20001 shows as 0.0 percent.
C5_Witness ==
    /\ call.op = "overlap_percentage" /\ call.state = "returned"
    /\ call.args[1] = 1 /\ call.args[2] = 20001
    /\ ret = 0

----------------------------------------------------------------------------
(* The collection tree as the HTML document nests it.                      *)

tree_parents(id) ==
    {collection_tree[i].k : i \in
        {j \in 1..Len(collection_tree) : id \in Range(collection_tree[j].v.children)}}

\* The titles from a root of the tree down to id, when each collection on the
\* way has one parent at most and the way is no longer than the tree.
RECURSIVE title_chain(_, _)
title_chain(id, fuel) ==
    IF fuel = 0 \/ Cardinality(tree_parents(id)) > 1 THEN <<>>
    ELSE IF tree_parents(id) = {} THEN <<dict_at(collection_tree, id).title>>
    ELSE LET up == title_chain(CHOOSE p \in tree_parents(id) : TRUE, fuel - 1)
         IN IF up = <<>> THEN <<>> ELSE Append(up, dict_at(collection_tree, id).title)

\* The collections whose mapped path is the joined titles of their chain.
well_mapped(id) ==
    /\ dict_has(collection_tree, id) /\ dict_has(website_hierarchy, id)
    /\ title_chain(id, Len(collection_tree)) # <<>>
    /\ dict_at(website_hierarchy, id) = join(<<"/">>, title_chain(id, Len(collection_tree)))

all_collections == portal_collections \o search_collections

(* C6: in the id -> path map of extract_full_paths, and in the collections *)
(* table of extract_from_rdf, a collection n with a parent p in the same   *)
(* library has path(n) = path(p) followed by title(n), and                 *)
(* depth(n) = depth(p) + 1.                                                *)
C6_HierarchyInvariant ==
    /\ \A i \in 1..Len(collection_tree) :
          \A n \in Range(collection_tree[i].v.children) :
              (dict_has(paths, n) /\ dict_has(paths, collection_tree[i].k)) =>
                  dict_at(paths, n) = child_path(dict_at(paths, collection_tree[i].k),
                                                dict_at(collection_tree, n).title)
    /\ \A L \in {"Portal", "Search"} :
          \A n \in Range(Collections(L)), p \in Range(Collections(L)) :
              n.parent_id = p.collection_id =>
                  /\ resolved_path(n) = child_path(resolved_path(p), n.title)
                  /\ n.depth = p.depth + 1

(* C7: every collection recorded with no parent has depth 0, whatever the  *)
(* website path map holds for its id.                                      *)
C7_RootDepthZero ==
    \A c \in Range(all_collections) : c.parent_id = None => c.depth = 0

(* C8: the depth of a collection is the number of titles on its            *)
(* root-to-self path minus 1, in the collections table of extract_from_rdf *)
(* and in the rows of export_website_hierarchy, also when a title holds    *)
(* the separator.                                                          *)
C8_DepthIsPathLength ==
    /\ \A c \in Range(all_collections) :
          /\ c.depth >= 0
          /\ well_mapped(c.collection_id) =>
                c.depth = Len(title_chain(c.collection_id, Len(collection_tree))) - 1
    /\ (call.op = "export_website_hierarchy" /\ call.state = "returned") =>
          \A i \in 1..Len(ret) :
              /\ ret[i].depth >= 0
              /\ well_mapped(ret[i].collection_id) =>
                    ret[i].depth =
                        Len(title_chain(ret[i].collection_id, Len(collection_tree))) - 1

(* C9: reconciling the RDF collections with the website map never fails   *)
(* on partial coverage: every collection of the RDF file gets its row,     *)
(* with the parent of the RDF relation; a collection in the map gets the   *)
(* map's path and the depth derived from it, a collection not in the map   *)
(* gets depth 0 and, in process_libraries, its own title as path.          *)
C9_Reconciliation ==
    (call.op = "process_libraries" /\ call.state = "returned") =>
        /\ \A e \in Range(call.args[1].elems) :
              (e.kind = "Collection" /\ e.about # "" /\ e.title # <<>>) =>
                  \E c \in Range(portal_collections) :
                      /\ c.collection_id = e.about /\ c.title = e.title
                      /\ c.parent_id = e.isPartOf
                      /\ dict_has(website_hierarchy, e.about) =>
                            /\ c.website_path = dict_at(website_hierarchy, e.about)
                            /\ c.depth = slashes(c.website_path)
                      /\ ~dict_has(website_hierarchy, e.about) =>
                            /\ c.website_path = <<>> /\ c.depth = 0
        /\ Completed =>
              \A i \in 1..Len(results.collection_analysis) :
                  LET r == results.collection_analysis[i]
                      wh_path == dict_get(website_hierarchy, r.collection_id, <<>>)
                  IN /\ wh_path # <<>> =>
                            /\ r.collection_path = wh_path
                            /\ r.collection_depth = slashes(wh_path)
                     /\ wh_path = <<>> =>
                            /\ r.collection_path = r.collection_title
                            /\ r.collection_depth = 0

\* Partial coverage: one Portal collection is mapped below a root and keeps the
\* RDF parent that disagrees with it, another is not in the map.
C9_Witness ==
    /\ Completed
    /\ \E c \in Range(portal_collections), d \in Range(portal_collections) :
          /\ dict_has(website_hierarchy, c.collection_id)
          /\ c.depth = 1 /\ c.parent_id = None
          /\ ~dict_has(website_hierarchy, d.collection_id)
          /\ \E i \in 1..Len(results.collection_analysis) :
                /\ results.collection_analysis[i].collection_id = d.collection_id
                /\ results.collection_analysis[i].collection_path = d.title

(* C10: normalize_title is idempotent.                                     *)
C10_NormalizeIdempotent ==
    (call.op = "normalize_title" /\ call.state = "returned") =>
        normalize_title(ret) = ret

\* A title that normalization changes: U+0130 between a space and punctuation.
C10_Witness ==
    /\ call.op = "normalize_title" /\ call.state = "returned"
    /\ call.args[1] = <<" ", "Idot", "!">>
    /\ ret = <<"i">>

(* C11: normalize_title(t) is t lower-cased, with every character that is  *)
(* neither alphanumeric nor whitespace removed, every run of whitespace     *)
(* replaced by one space and the ends trimmed; so every character of the    *)
(* result is a lower-case alphanumeric or a space, and no space leads,      *)
(* trails or follows a space.                                               *)
C11_NormalizeCharacterisation ==
    (call.op = "normalize_title" /\ call.state = "returned"
        /\ call.args[1] # NoneTitle) =>
        LET isalnum(c) == c \in UpperChars \cup LowerChars \cup DigitChars \cup {"Idot"}
            kept == SelectSeq(lower(call.args[1]), LAMBDA c : isalnum(c) \/ isspace(c))
        IN /\ ret = join(<<" ">>, split(kept))
           /\ \A i \in 1..Len(ret) : ret[i] \in LowerChars \cup DigitChars \cup {" "}
           /\ ret # <<>> => ret[1] # " " /\ ret[Len(ret)] # " "
           /\ \A i \in 1..Len(ret) - 1 : ~(ret[i] = " " /\ ret[i + 1] = " ")

(* C12: normalize_title never raises, returns the empty string for an empty *)
(* or absent title, and returns the same key when called again on the same  *)
(* input.                                                                   *)
C12_NormalizeTotal ==
    /\ [](call.op = "normalize_title" =>
            /\ call.state # "raised"
            /\ (call.state = "returned" /\ call.args[1] \in {NoneTitle, <<>>}) =>
                    ret = <<>>)
    /\ [][(call.op = "normalize_title" /\ call.state = "returned"
             /\ call'.op = "normalize_title" /\ call'.args = call.args
             /\ call'.state = "returned") => ret' = ret]_vars

\* normalize_title returned from a call on None.
C12_Witness ==
    /\ call.op = "normalize_title" /\ call.state = "returned"
    /\ call.args[1] = NoneTitle
    /\ ret = <<>>

(* C13: identify_collection_gaps(min_items) returns exactly the statistics *)
(* rows with total_items >= min_items, by ascending overlap_percentage and, *)
(* among equal percentages, by ascending collection_path; called again on   *)
(* the same statistics it returns the rows in the same order.               *)
C13_GapRanking ==
    /\ []((call.op = "identify_collection_gaps" /\ call.state = "returned") =>
            /\ Range(ret) = {r \in Range(results.collection_stats) :
                                r.total_items >= call.args[1]}
            /\ \A i \in 1..Len(ret), j \in 1..Len(ret) : i < j => ret[i] # ret[j]
            /\ \A i \in 1..Len(ret) - 1 :
                  \/ ret[i].overlap_percentage < ret[i + 1].overlap_percentage
                  \/ /\ ret[i].overlap_percentage = ret[i + 1].overlap_percentage
                     /\ ~str_less(ret[i + 1].collection_path, ret[i].collection_path))
    /\ [][(call.op = "identify_collection_gaps" /\ call.state = "returned"
             /\ call'.op = "identify_collection_gaps" /\ call'.state = "returned"
             /\ call'.args = call.args) => ret' = ret]_vars

\* A ranking that drops a row and orders two rows of equal percentage by their
\* paths, against the order of the statistics.
C13_Witness ==
    /\ call.op = "identify_collection_gaps" /\ call.state = "returned"
    /\ Len(ret) < Len(results.collection_stats)
    /\ \E i \in 1..Len(ret) - 1 :
          /\ ret[i].overlap_percentage = ret[i + 1].overlap_percentage
          /\ str_less(ret[i].collection_path, ret[i + 1].collection_path)
          /\ ret[i].library = "Search" /\ ret[i + 1].library = "Portal"

(* C14: when a library contributes no records, process_libraries does not  *)
(* raise and reports overlap = 0 with an empty common_titles.               *)
C14_EmptyRecordsOverlapZero ==
    (call.op = "process_libraries" /\ call.state = "returned"
        /\ (portal_records = <<>> \/ search_records = <<>>)) =>
        /\ ret.raised = ""
        /\ analysis_results # <<>>
        /\ results.overlap = 0
        /\ results.common_titles = {}

(* C15: process_libraries returns without raising and stores               *)
(* analysis_results for any inputs: an unreadable or malformed RDF or XML   *)
(* file of a library, libraries in which no item belongs to a collection.   *)
C15_PipelineCompletes ==
    (call.op = "process_libraries" /\ call.state = "returned") =>
        /\ ret.raised = ""
        /\ analysis_results # <<>>

(* C16: when the parent relation of a library holds a cycle (A is part of  *)
(* B and B is part of A), the hierarchy build of that library fails with a  *)
(* CycleError: no hierarchy of it is stored and no statistics row of it is  *)
(* reported, while the hierarchy of the other library and the record        *)
(* overlap are completed.                                                   *)
C16_CycleError ==
    (call.op = "process_libraries" /\ call.state = "returned"
        /\ \E a \in Range(call.args[1].elems), b \in Range(call.args[1].elems) :
              /\ a.kind = "Collection" /\ b.kind = "Collection"
              /\ a.isPartOf = b.about /\ b.isPartOf = a.about) =>
        /\ portal_hierarchy = EmptyGraph
        /\ portal_collections = <<>>
        /\ search_hierarchy # EmptyGraph
        /\ ret.raised = ""
        /\ analysis_results # <<>>
        /\ \A r \in Range(results.collection_stats) : r.library # "Portal"

\* Two ids of the website map carry one path, and a collection lies below it.
ambiguous_parent ==
    \E i \in 1..Len(website_hierarchy), j \in 1..Len(website_hierarchy) :
        /\ i # j
        /\ website_hierarchy[i].v = website_hierarchy[j].v
        /\ \E k \in 1..Len(website_hierarchy) :
              LET parts == split_slash(website_hierarchy[k].v)
              IN /\ Len(parts) > 1
                 /\ join(<<"/">>, SubSeq(parts, 1, Len(parts) - 1)) = website_hierarchy[i].v

(* C17: when two ids of the website path map carry the same flattened     *)
(* path, building the hierarchy from the paths (for the drawing, for the    *)
(* export) ends in an error, AmbiguousPathError, and neither id is chosen   *)
(* as the parent of the collections below that path.                        *)
C17_AmbiguousPathError ==
    (call.op \in {"export_website_hierarchy", "visualize_website_hierarchy"}
        /\ ambiguous_parent) =>
        call.state = "raised"

(* C18: a collection whose parent reference names an id that is no         *)
(* collection of its library is treated as a root, without failing:         *)
(* extract_from_rdf records it with no parent.                              *)
C18_DanglingParentIsRoot ==
    (call.op = "process_libraries" /\ call.state = "returned") =>
        \A e \in Range(call.args[1].elems) :
            (/\ e.kind = "Collection" /\ e.about # "" /\ e.title # <<>>
             /\ e.isPartOf # None
             /\ \A p \in Range(call.args[1].elems) :
                    ~(p.kind = "Collection" /\ p.about = e.isPartOf)) =>
                \E c \in Range(portal_collections) :
                    c.collection_id = e.about /\ c.parent_id = None

(* C19: one malformed node does not abort the build: an li.collection      *)
(* without item-container, an RDF collection without id or title, an XML    *)
(* record without title is skipped, and every well-formed node of the same  *)
(* input is in the resulting tree, table or record set.                     *)
C19_MalformedNodeSkipped ==
    /\ \A i \in 1..Len(html_file) :
          html_file[i].key # NoContainer => dict_has(collection_tree, html_file[i].key)
    /\ (call.op = "process_libraries" /\ call.state = "returned") =>
          /\ \A e \in Range(call.args[1].elems) :
                (e.kind = "Collection" /\ e.about # "" /\ e.title # <<>>) =>
                    \E c \in Range(portal_collections) : c.collection_id = e.about
          /\ \A r \in Range(call.args[2].records) :
                r.title # <<>> =>
                    \E x \in Range(portal_records) : x.title = strip(r.title)

(* C20: statistics are per collection, not rolled up: an item that is a     *)
(* member of a child collection only contributes its title to the child's   *)
(* total_items (and to its overlap_items when the title is common), and     *)
(* nothing to the row of the parent, whose total_items counts members of    *)
(* the parent alone.                                                        *)
C20_NoRollUp ==
    Completed =>
        \A child \in Range(call.args[1].elems), parent \in Range(call.args[1].elems) :
            (/\ child.kind = "Collection" /\ parent.kind = "Collection"
             /\ child.isPartOf = parent.about) =>
                /\ \A x \in Range(call.args[1].elems) :
                      (/\ x.kind = "Item"
                       /\ x.about \in Range(child.hasPart)
                       /\ x.about \notin Range(parent.hasPart)) =>
                          \E i \in 1..Len(results.collection_analysis) :
                              LET r == results.collection_analysis[i]
                              IN /\ r.library = "Portal"
                                 /\ r.collection_id = child.about
                                 /\ r.normalized_title = normalize_title(x.title)
                                 /\ r.is_overlap =
                                        (r.normalized_title \in results.common_titles)
                /\ \A i \in 1..Len(results.collection_analysis) :
                      LET r == results.collection_analysis[i]
                      IN (r.library = "Portal" /\ r.collection_id = parent.about) =>
                            \E y \in Range(call.args[1].elems) :
                                /\ y.about \in Range(parent.hasPart)
                                /\ normalize_title(y.title) = r.normalized_title
                /\ \A r \in Range(results.collection_stats) :
                      (r.library = "Portal" /\ r.collection_title = parent.title) =>
                          r.total_items <= Len(parent.hasPart)

(* C21: the statistics are keyed by (library, collection_path): the table   *)
(* collection_stats of a completed process_libraries holds at most one row  *)
(* for each pair, also when two collections of a library resolve to one     *)
(* path with different titles or depths.                                    *)
C21_StatsKeyedByLibraryPath ==
    Completed =>
        \A i \in 1..Len(results.collection_stats), j \in 1..Len(results.collection_stats) :
            (/\ results.collection_stats[i].library = results.collection_stats[j].library
             /\ results.collection_stats[i].collection_path =
                    results.collection_stats[j].collection_path) => i = j

(* C22: no statistics row is computed by dividing by zero: every row of    *)
(* collection_stats has total_items >= 1 and a defined overlap_percentage,  *)
(* and so has every row of the gap ranking.                                 *)
C22_NoDivisionByZero ==
    /\ analysis_results # <<>> =>
          \A r \in Range(results.collection_stats) :
              /\ r.total_items >= 1
              /\ r.overlap_percentage # NaN
              /\ 0 <= r.overlap_percentage /\ r.overlap_percentage <= 10000
    /\ (call.op = "identify_collection_gaps" /\ call.state = "returned") =>
          \A r \in Range(ret) : r.total_items >= 1 /\ r.overlap_percentage # NaN

\* A ranking that holds a row without overlap: its percentage is 0, not undefined.
C22_Witness ==
    /\ call.op = "identify_collection_gaps" /\ call.state = "returned"
    /\ \E r \in Range(ret) :
          r.overlap_items = 0 /\ r.overlap_percentage = 0 /\ r.total_items >= 1

\* The least level of the collection tree.
min_level ==
    CHOOSE m \in {collection_tree[i].v.level : i \in 1..Len(collection_tree)} :
        \A i \in 1..Len(collection_tree) : m <= collection_tree[i].v.level

(* C23: the roots are the nodes at the least level of the input:            *)
(* extract_full_paths starts a path, the node's own title, at every node    *)
(* whose level is the least level of the tree, whatever that level is.      *)
C23_RootsAtMinimumLevel ==
    (mapping_raised = "" /\ collection_tree # <<>>) =>
        \A i \in 1..Len(collection_tree) :
            collection_tree[i].v.level = min_level =>
                /\ dict_has(paths, collection_tree[i].k)
                /\ dict_at(paths, collection_tree[i].k) = collection_tree[i].v.title

\* The path without its last segment.
path_minus_last(path) ==
    join(<<"/">>, SubSeq(split_slash(path), 1, Len(split_slash(path)) - 1))

(* C24: over the id -> path map, the parent that export_website_hierarchy   *)
(* writes and the edges that visualize_website_hierarchy draws give a       *)
(* collection the parent whose full path is its path minus the last         *)
(* segment; a collection whose path has one segment has no parent, and no   *)
(* collection is its own parent.                                            *)
C24_FlattenedParent ==
    /\ (call.op = "export_website_hierarchy" /\ website_hierarchy # <<>>) =>
          \A r \in Range(ret) :
              /\ Len(split_slash(r.path)) = 1 => r.parent_id = ""
              /\ r.parent_id # r.collection_id
              /\ r.parent_id # "" =>
                    /\ dict_has(website_hierarchy, r.parent_id)
                    /\ dict_at(website_hierarchy, r.parent_id) = path_minus_last(r.path)
    /\ (call.op = "visualize_website_hierarchy" /\ website_hierarchy # <<>>) =>
          \A e \in ret.edges :
              /\ e[1] # e[2]
              /\ Len(split_slash(dict_at(website_hierarchy, e[2]))) > 1
              /\ dict_at(website_hierarchy, e[1]) =
                    path_minus_last(dict_at(website_hierarchy, e[2]))

(* C25: extract_full_paths maps each collection of the tree to its full     *)
(* path: the keys of the returned map are the keys of the tree, and the     *)
(* last segment of each path is the title of its collection.                *)
C25_PathsCoverTree ==
    mapping_raised = "" =>
        /\ dict_keys_set(paths) = dict_keys_set(collection_tree)
        /\ \A i \in 1..Len(paths) :
              LET parts == split_slash(paths[i].v)
              IN parts[Len(parts)] = dict_at(collection_tree, paths[i].k).title

(* C26: extract_full_paths comes to an end and returns its map on every     *)
(* tree of parse_collection_hierarchy, also on a tree in which an id is in  *)
(* its own children list: the recursion of build_path is never cut off by   *)
(* the interpreter.                                                         *)
C26_ExtractTerminates ==
    (\E i \in 1..Len(collection_tree) :
        collection_tree[i].k \in Range(collection_tree[i].v.children)) =>
        mapping_raised # "RecursionError"

\* The methods that need the results of process_libraries.
ResultUsers ==
    {"visualize_overlap", "visualize_document_types", "visualize_collection_distribution",
     "visualize_collection_overlap_heatmap", "identify_collection_gaps",
     "export_analysis_results", "export_matched_records", "export_collection_analysis",
     "export_gap_analysis", "export_title_collections", "generate_html_interface"}

\* The attributes of the analyzer.
analyzer_state ==
    <<website_hierarchy, tables, portal_hierarchy, search_hierarchy, analysis_results>>

(* C27: analysis_results is None until a process_libraries has completed   *)
(* and is never None after one; a method that needs the results raises     *)
(* ValueError exactly while analysis_results is None, that is while no     *)
(* process_libraries has completed, and it changes no attribute of the     *)
(* analyzer.                                                               *)
C27_RunBeforeUse ==
    /\ [](/\ Called("process_libraries") => analysis_results = <<>>
          /\ Completed => analysis_results # <<>>
          /\ call.op \in ResultUsers =>
                (call.state = "raised" <=> analysis_results = <<>>))
    /\ [][/\ (analysis_results = <<>> /\ analysis_results' # <<>>) => Completed'
          /\ analysis_results # <<>> => analysis_results' # <<>>
          /\ call'.op \in ResultUsers => UNCHANGED analyzer_state]_vars
C27_Witness ==
    /\ call.op = "generate_html_interface" /\ call.state = "raised"
    /\ ret = ValueError
    /\ portal_records # <<>> /\ search_records # <<>>
    /\ analysis_results = <<>>

\* The results that lines 294-442 compute from the tables the analyzer holds.
results_of_tables ==
    analyze([items |-> portal_items, collections |-> portal_collections,
             collection_items |-> portal_collection_items], portal_records,
            [items |-> search_items, collections |-> search_collections,
             collection_items |-> search_collection_items], search_records,
            call.args[5]).results

(* C28: a process_libraries that raises leaves analysis_results as it was  *)
(* (None on a first run, the results of the last completed run otherwise), *)
(* only a process_libraries changes it, and after a completed run it is    *)
(* the results computed from the tables which that run stored.             *)
C28_ResultsAssignedLast ==
    /\ [](Completed => results = results_of_tables)
    /\ [][/\ (/\ call'.op = "process_libraries" /\ call'.state = "returned"
              /\ ret'.raised # "") => analysis_results' = analysis_results
          /\ analysis_results' # analysis_results => Completed']_vars
C28_Witness ==
    /\ call.op = "process_libraries" /\ call.state = "returned"
    /\ ret.raised # ""
    /\ analysis_results # <<>>
    /\ results.all_records # portal_records \o search_records

(* C29: extract_from_rdf(path, L) replaces the stored hierarchy graph of   *)
(* library L only, whatever the name L: the graph of Portal changes only   *)
(* for L = Portal, the graph of Search only for L = Search; and when the   *)
(* parsing raises it returns three empty tables and changes neither graph. *)
C29_GraphOfLibraryOnly ==
    [][call'.op = "extract_from_rdf" =>
          /\ call'.args[2] # "Portal" => portal_hierarchy' = portal_hierarchy
          /\ call'.args[2] # "Search" => search_hierarchy' = search_hierarchy
          /\ ~call'.args[1].ok =>
                /\ ret' = <<<<>>, <<>>, <<>>>>
                /\ UNCHANGED <<portal_hierarchy, search_hierarchy>>]_vars

\* The rows of one library in a statistics table.
library_rows(stats, library) == SelectSeq(stats, LAMBDA r : r.library = library)

\* The tables of one library as this run extracted them.
extracted(library) ==
    [items |-> Items(library), collections |-> Collections(library),
     collection_items |-> Memberships(library)]

\* The run that differs from this one in the RDF file of `library` alone.
other_run(library, rdf) ==
    IF library = "Search"
    THEN analyze(extracted("Portal"), portal_records,
                 extract_from_rdf(rdf, "Search", website_hierarchy), search_records,
                 call.args[5])
    ELSE analyze(extract_from_rdf(rdf, "Portal", website_hierarchy), portal_records,
                 extracted("Search"), search_records, call.args[5])

====
